---- MODULE Spec2Model ----
(***************************************************************************)
(* State-machine model of the PegKeeper IDL Runner page                    *)
(* (src/app/idl-runner/page.tsx): the React state of IdlRunnerPage, the    *)
(* IDL fetch effect, the wallet handlers, the form's onChange handlers and *)
(* runInstruction with its awaited rpc() call.                             *)
(*                                                                         *)
(* Encoding.  A JavaScript string is a TLA+ string; the `log` string is    *)
(* the sequence of messages it holds (<<>> for '', <<m>> after setLog(m)); *)
(* Record<string,string> is a function whose DOMAIN is its key set; a      *)
(* PublicKey or null is a string with "" for null/undefined.  React        *)
(* applies the state updates queued by one synchronous stretch of a        *)
(* handler together, so each such stretch is one action.  runInstruction   *)
(* is the stretch up to `await ... .rpc()`, and the settling of rpc() is   *)
(* RpcResolved or RpcRejected.  connectPhantom and disconnectPhantom       *)
(* change no state before their await, so the click and the settling of    *)
(* the wallet's promise are one action.  The rpc URL only selects the      *)
(* Connection and the cluster suffix of the explorer link in the 'Sent'    *)
(* message; it is left out of the state.                                   *)
(***************************************************************************)
EXTENDS Integers, Sequences, FiniteSets, TLC

\* ------------------------------------------------------------------ bounds

\* Cap on rpc() promises outstanding at once (the code sets none).
MaxInflight == 2

\* ------------------------------------------------------------------ inputs

\* Strings an operator types into a form field.
RawValues == {"", "1", "9xQe"}

\* Raw strings that base58-decode to 32 bytes ("9xQe" stands for such a key).
ValidAddresses == {"9xQe"}

\* Program IDs typed into the Program ID input; '' is the unset default.
ProgramIds == {"", "Prog1", "notAKey"}

\* Program IDs new anchor.Program accepts as idl.address.
ValidProgramIds == {"Prog1"}

\* The public key the Phantom wallet reports once connected.
WalletKey == "Wallet1"

\* Transaction signature returned by rpc().
TxSig == "sig1"

\* IDL argument types: a string ("prim"), {defined: name} or another object
\* such as {vec: ...}.
Prim(n) == [kind |-> "prim", name |-> n]

Defined(n) == [kind |-> "defined", name |-> n]

VecOf(n) == [kind |-> "vec", name |-> n]

Arg(n, t) == [name |-> n, type |-> t]

Acct(n) == [name |-> n]

\* useState<IdlLike | null>(null)
NullIdl == [loaded |-> FALSE, address |-> "", instructions |-> << >>]

Doc(ixs) == [loaded |-> TRUE, address |-> "", instructions |-> ixs]

\* Documents /idl/pegkeeper.json may hold.
EmptyIdl == Doc(<< >>)

PegIdl ==
  Doc(<< [name |-> "deposit",
          args |-> << Arg("amount", Prim("u64")) >>,
          accounts |-> << Acct("vault"), Acct("systemProgram") >>],
         [name |-> "configure",
          args |-> << Arg("enabled", Prim("Bool")), Arg("amount", Prim("u8")) >>,
          accounts |-> << Acct("admin"), Acct("vault") >>] >>)

AdminIdl ==
  Doc(<< [name |-> "set_admin",
          args |-> << Arg("role", Defined("Role")) >>,
          accounts |-> << Acct("systemProgram"), Acct("admin") >>],
         [name |-> "publish",
          args |-> << Arg("data", VecOf("u8")) >>,
          accounts |-> << >>] >>)

IdlDocs == {EmptyIdl, PegIdl, AdminIdl}

\* ------------------------------------------------------------------- state

VARIABLES
  fetching,    \* the IDL fetch of the mount effect has not settled
  phantom,     \* window.solana?.isPhantom
  solanaPk,    \* window.solana.publicKey ("" when absent)
  programId,
  idl,
  ixName,
  argValues,
  acctValues,
  walletPk,
  busy,
  log,
  inflight     \* runInstruction calls suspended at `await ... .rpc()`

vars == << fetching, phantom, solanaPk, programId, idl, ixName, argValues,
           acctValues, walletPk, busy, log, inflight >>

\* ------------------------------------------------------------ tiny helpers

\* toCamel, on the instruction names of IdlDocs.
toCamel(s) ==
  CASE s = "set_admin" -> "setAdmin"
    [] OTHER -> s

\* String.prototype.toLowerCase, on the type names of IdlDocs.
ToLower(s) ==
  CASE s = "Bool" -> "bool"
    [] s = "Role" -> "role"
    [] OTHER -> s

\* /(u64|i64|u128|i128|u256|i256)/i.test(t): an unanchored, case-blind match.
isBNType(t) == t.isString /\ t.s # "" /\ ToLower(t.s) \in {"u64", "i64", "u128", "i128", "u256", "i256"}

\* /^(u8|u16|u32|i8|i16|i32|f32|f64)$/i.test(idlType || '')
IsNumType(t) == t.isString /\ ToLower(t.s) \in {"u8", "u16", "u32", "i8", "i16", "i32", "f32", "f64"}

\* a.type?.defined ?? a.type?.type ?? a.type : a string, or the object itself.
ResolveType(t) ==
  CASE t.kind = "prim" -> [isString |-> TRUE, s |-> t.name]
    [] t.kind = "defined" -> [isString |-> TRUE, s |-> t.name]
    [] OTHER -> [isString |-> FALSE, s |-> ""]

\* Coerced values and a thrown exception, as one record shape.
BoolVal(b) == [k |-> "bool", b |-> b, n |-> 0, s |-> ""]

BNVal(n) == [k |-> "bn", b |-> FALSE, n |-> n, s |-> ""]

NumVal(n) == [k |-> "num", b |-> FALSE, n |-> n, s |-> ""]

NaNVal == [k |-> "nan", b |-> FALSE, n |-> 0, s |-> ""]

StrVal(s) == [k |-> "str", b |-> FALSE, n |-> 0, s |-> s]

Thrown(msg) == [k |-> "throw", b |-> FALSE, n |-> 0, s |-> msg]

\* Base-10 literals among RawValues, and their values.
IsDecimal(raw) == raw \in {"1"}

DecimalValue(raw) == CASE raw = "1" -> 1 [] OTHER -> 0

\* Number(raw): '' is 0, a numeric literal its value, anything else NaN.
NumberOf(raw) ==
  IF raw = "" THEN NumVal(0)
  ELSE IF IsDecimal(raw) THEN NumVal(DecimalValue(raw))
  ELSE NaNVal

\* new anchor.BN(raw).  '' is 0.  On a character that is no digit the bn.js of
\* the build either throws 'Invalid character' (strict) or folds the character
\* codes into a number: "9xQe" gives ((9*10+33)*10+26)*10+14.
BNOf(raw, strict) ==
  IF raw = "" THEN BNVal(0)
  ELSE IF IsDecimal(raw) THEN BNVal(DecimalValue(raw))
  ELSE IF strict THEN Thrown("Invalid character")
  ELSE BNVal(12574)

parseArg(raw, idlType, strict) ==
  IF ~idlType.isString THEN Thrown("idlType?.toLowerCase is not a function")
  ELSE IF ToLower(idlType.s) = "bool" THEN BoolVal(raw = "true" \/ raw = "1")
  ELSE IF isBNType(idlType) THEN BNOf(raw, strict)
  ELSE IF IsNumType(idlType) THEN NumberOf(raw)
  ELSE StrVal(raw)

\* new PublicKey(v) throws unless v decodes to 32 bytes.
IsValidPubkey(v) == v \in ValidAddresses

\* m[key] ?? ''
GetOr(m, key) == IF key \in DOMAIN m THEN m[key] ELSE ""

\* ({ ...s, [name]: value })
Put(m, key, value) == [k \in DOMAIN m \cup {key} |-> IF k = key THEN value ELSE m[k]]

Names(items) == {items[i].name : i \in 1..Len(items)}

\* idl.instructions?.find((i) => i.name === name): its index, or 0.
FindIx(doc, name) ==
  LET ixs == doc.instructions
      hits == {i \in 1..Len(ixs) : ixs[i].name = name}
  IN IF hits = {} THEN 0 ELSE CHOOSE i \in hits : \A j \in hits : i <= j

\* ----------------------------------------------------------- log messages

Msg(kind, err, name) == [kind |-> kind, err |-> err, name |-> name]

RunFailed(err, name) == Msg("RunFailed", err, name)

\* Faulty variant of SetLog: the message is added after what the log already holds.
SetLogAppending(m) == Append(log, m)

\* setLog(m): the log string becomes m.
SetLog(m) == << m >>

\* -------------------------------------------------------------------- Init

Init ==
  /\ fetching = TRUE
  /\ phantom \in BOOLEAN
  /\ solanaPk = ""
  /\ programId = ""
  /\ idl = NullIdl
  /\ ixName = ""
  /\ argValues = << >>
  /\ acctValues = << >>
  /\ walletPk = ""
  /\ busy = FALSE
  /\ log = << >>
  /\ inflight = << >>

\* ----------------------------------------------------------- IDL loading

\* useEffect: the fetch succeeded and res.json() parsed.
IdlFetched ==
  /\ fetching
  /\ \E doc \in IdlDocs :
       /\ idl' = doc
       /\ ixName' = IF Len(doc.instructions) > 0 THEN doc.instructions[1].name ELSE ixName
  /\ fetching' = FALSE
  /\ UNCHANGED << phantom, solanaPk, programId, argValues, acctValues, walletPk,
                  busy, log, inflight >>

\* useEffect: fetch rejected, !res.ok, or res.json() threw.
IdlFetchFailed ==
  /\ fetching
  /\ fetching' = FALSE
  /\ log' = SetLog(Msg("LoadFailed", "", ""))
  /\ UNCHANGED << phantom, solanaPk, programId, idl, ixName, argValues, acctValues,
                  walletPk, busy, inflight >>

\* ----------------------------------------------------------------- wallet

\* The Connect button is rendered while walletPk is ''.
connectPhantom ==
  /\ walletPk = ""
  /\ \E accepted \in BOOLEAN :
       IF ~phantom
       THEN /\ log' = SetLog(Msg("PhantomNotFound", "", ""))
            /\ UNCHANGED << walletPk, solanaPk >>
       ELSE IF accepted
       THEN /\ walletPk' = WalletKey
            /\ solanaPk' = WalletKey
            /\ log' = SetLog(Msg("Connected", "", WalletKey))
       ELSE /\ log' = SetLog(Msg("ConnectFailed", "", ""))
            /\ UNCHANGED << walletPk, solanaPk >>
  /\ UNCHANGED << fetching, phantom, programId, idl, ixName, argValues, acctValues,
                  busy, inflight >>

\* The Disconnect button is rendered while walletPk is set.
disconnectPhantom ==
  /\ walletPk # ""
  /\ \E done \in BOOLEAN :
       IF done
       THEN /\ walletPk' = ""
            /\ solanaPk' = ""
            /\ log' = SetLog(Msg("Disconnected", "", ""))
       ELSE /\ log' = SetLog(Msg("DisconnectError", "", ""))
            /\ UNCHANGED << walletPk, solanaPk >>
  /\ UNCHANGED << fetching, phantom, programId, idl, ixName, argValues, acctValues,
                  busy, inflight >>

\* ------------------------------------------------------------------- form

\* Program ID <input> onChange.
SetProgramId ==
  /\ \E v \in ProgramIds : v # programId /\ programId' = v
  /\ UNCHANGED << fetching, phantom, solanaPk, idl, ixName, argValues, acctValues,
                  walletPk, busy, log, inflight >>

\* Instruction <select> onChange: one <option> per instruction of the IDL.
SelectInstruction ==
  /\ \E i \in 1..Len(idl.instructions) :
       /\ idl.instructions[i].name # ixName
       /\ ixName' = idl.instructions[i].name
  /\ UNCHANGED << fetching, phantom, solanaPk, programId, idl, argValues, acctValues,
                  walletPk, busy, log, inflight >>

\* useMemo: idl?.instructions?.find((i) => i.name === ixName)
HasCurrentIx == FindIx(idl, ixName) # 0

currentIx == idl.instructions[FindIx(idl, ixName)]

\* Argument <input> onChange: one input per argument of currentIx.
SetArgValue ==
  /\ HasCurrentIx
  /\ \E a \in Names(currentIx.args), v \in RawValues :
       /\ v # GetOr(argValues, a)
       /\ argValues' = Put(argValues, a, v)
  /\ UNCHANGED << fetching, phantom, solanaPk, programId, idl, ixName, acctValues,
                  walletPk, busy, log, inflight >>

\* Account <input> onChange: one input per account of currentIx.
SetAcctValue ==
  /\ HasCurrentIx
  /\ \E a \in Names(currentIx.accounts), v \in RawValues :
       /\ v # GetOr(acctValues, a)
       /\ acctValues' = Put(acctValues, a, v)
  /\ UNCHANGED << fetching, phantom, solanaPk, programId, idl, ixName, argValues,
                  walletPk, busy, log, inflight >>

\* --------------------------------------------------------- runInstruction

\* Faulty variant of SubmitEnabled: the button ignores busy.
SubmitAlwaysEnabled == TRUE

\* The Run button: disabled={busy}.
SubmitEnabled == ~busy

\* Faulty variant of SetAddress: the document is replaced by one holding only the address.
SetAddressOnFreshDoc(doc, pid) == [loaded |-> TRUE, address |-> pid, instructions |-> << >>]

\* (idl as any).address = programId
SetAddress(doc, pid) == [doc EXCEPT !.address = pid]

\* new anchor.Program(idl, provider) throws unless idl.address is a public key.
ProgramCtorOk(doc) == doc.address \in ValidProgramIds

\* The keys of program.methods, which Anchor derives from the IDL's names.
ProgramMethods(doc) ==
  {toCamel(doc.instructions[i].name) : i \in 1..Len(doc.instructions)}

\* Faulty variant of argsOrdered: the arguments are taken last to first.
argsOrderedReversed(ix, av, strict) ==
  [i \in 1..Len(ix.args) |->
     parseArg(GetOr(av, ix.args[Len(ix.args) + 1 - i].name),
              ResolveType(ix.args[Len(ix.args) + 1 - i].type), strict)]

\* (ix.args || []).map((a) => parseArg(argValues[a.name] ?? '', <type of a>))
argsOrdered(ix, av, strict) ==
  [i \in 1..Len(ix.args) |->
     parseArg(GetOr(av, ix.args[i].name), ResolveType(ix.args[i].type), strict)]

\* Index of the first element whose parseArg threw, or 0.
FirstThrow(vals) ==
  LET hits == {i \in 1..Len(vals) : vals[i].k = "throw"}
  IN IF hits = {} THEN 0 ELSE CHOOSE i \in hits : \A j \in hits : i <= j

\* Faulty variant of AccountMissing: only an absent key counts (v === undefined).
AccountUndefined(cv, name) == name \notin DOMAIN cv

\* const v = acctValues[a.name]; if (!v) ...
AccountMissing(cv, name) == GetOr(cv, name) = ""

\* Index of the first account at which the forEach throws, or 0.
FirstBadAccount(ix, cv) ==
  LET hits == {i \in 1..Len(ix.accounts) :
                 \/ AccountMissing(cv, ix.accounts[i].name)
                 \/ ~IsValidPubkey(cv[ix.accounts[i].name])}
  IN IF hits = {} THEN 0 ELSE CHOOSE i \in hits : \A j \in hits : i <= j

\* The accounts object once every account passed.
accountsOf(ix, cv) == [n \in Names(ix.accounts) |-> cv[n]]

Failure(msg) == [ok |-> FALSE, err |-> msg, args |-> << >>, accounts |-> << >>]

\* The try block up to the rpc() call, on the IDL with its address set:
\* the exception thrown, or the arguments and accounts handed to the builder.
TryBody(doc, name, av, cv, strict) ==
  IF ~ProgramCtorOk(doc) THEN Failure(RunFailed("Invalid public key input", ""))
  ELSE IF FindIx(doc, name) = 0 THEN Failure(RunFailed("Instruction not found in IDL", name))
  ELSE
    LET ix == doc.instructions[FindIx(doc, name)]
        vals == argsOrdered(ix, av, strict)
        t == FirstThrow(vals)
        b == FirstBadAccount(ix, cv)
    IN IF t # 0 THEN Failure(RunFailed(vals[t].s, ""))
       ELSE IF b # 0 /\ AccountMissing(cv, ix.accounts[b].name)
         THEN Failure(RunFailed("Missing account pubkey", ix.accounts[b].name))
       ELSE IF b # 0 THEN Failure(RunFailed("Invalid public key input", ""))
       ELSE IF toCamel(name) \notin ProgramMethods(doc)
         THEN Failure(RunFailed("Method not found", toCamel(name)))
       ELSE [ok |-> TRUE, err |-> Msg("Building", "", ""), args |-> vals,
             accounts |-> accountsOf(ix, cv)]

\* A click on Run: the three early returns, or the try block up to the await.
runInstruction ==
  /\ SubmitEnabled
  /\ Len(inflight) < MaxInflight
  /\ \E strict \in BOOLEAN :
       IF ~idl.loaded
       THEN /\ log' = SetLog(Msg("IDL not loaded", "", ""))
            /\ UNCHANGED << idl, busy, inflight >>
       ELSE IF programId = ""
       THEN /\ log' = SetLog(Msg("Set Program ID", "", ""))
            /\ UNCHANGED << idl, busy, inflight >>
       ELSE IF solanaPk = ""
       THEN /\ log' = SetLog(Msg("Connect Phantom first", "", ""))
            /\ UNCHANGED << idl, busy, inflight >>
       ELSE
         LET doc == SetAddress(idl, programId)
             out == TryBody(doc, ixName, argValues, acctValues, strict)
         IN /\ idl' = doc
            /\ IF out.ok
               THEN /\ log' = SetLog(Msg("Building", "", ""))
                    /\ busy' = TRUE
                    /\ inflight' = Append(inflight,
                         [ixName |-> ixName, args |-> out.args, accounts |-> out.accounts])
               ELSE /\ log' = SetLog(out.err)
                    /\ busy' = FALSE
                    /\ UNCHANGED inflight
  /\ UNCHANGED << fetching, phantom, solanaPk, programId, ixName, argValues,
                  acctValues, walletPk >>

Remove(seq, i) == [j \in 1..(Len(seq) - 1) |-> IF j < i THEN seq[j] ELSE seq[j + 1]]

\* rpc() resolved with a signature: setLog('Sent ...'), then finally.
RpcResolved ==
  /\ \E i \in 1..Len(inflight) : inflight' = Remove(inflight, i)
  /\ log' = SetLog(Msg("Sent", "", TxSig))
  /\ busy' = FALSE
  /\ UNCHANGED << fetching, phantom, solanaPk, programId, idl, ixName, argValues,
                  acctValues, walletPk >>

\* rpc() rejected: catch, then finally.
RpcRejected ==
  /\ \E i \in 1..Len(inflight) : inflight' = Remove(inflight, i)
  /\ log' = SetLog(RunFailed("SignerError", ""))
  /\ busy' = FALSE
  /\ UNCHANGED << fetching, phantom, solanaPk, programId, idl, ixName, argValues,
                  acctValues, walletPk >>

\* ------------------------------------------------------------ specification

Next ==
  \/ IdlFetched
  \/ IdlFetchFailed
  \/ connectPhantom
  \/ disconnectPhantom
  \/ SetProgramId
  \/ SelectInstruction
  \/ SetArgValue
  \/ SetAcctValue
  \/ runInstruction
  \/ RpcResolved
  \/ RpcRejected

Spec == Init /\ [][Next]_vars

\* ================================================================== claims

\* The system-program account name and address the specification auto-fills.
SystemProgramName == "systemProgram"

SystemProgramId == "11111111111111111111111111111111"

\* A click on Run that passes the three early returns, builds the Program and
\* resolves the selected instruction: the submit reaches argument and account
\* assembly.
ReachesAssembly ==
  /\ idl.loaded
  /\ programId \in ValidProgramIds
  /\ solanaPk # ""
  /\ HasCurrentIx

\* No declared argument can make parseArg throw, whatever the bn.js of the build.
ArgsCoerce ==
  \A i \in 1..Len(currentIx.args), strict \in BOOLEAN :
    parseArg(GetOr(argValues, currentIx.args[i].name),
             ResolveType(currentIx.args[i].type), strict).k # "throw"

\* Every declared account outside `except` holds a well-formed address.
AccountsSupplied(except) ==
  \A n \in Names(currentIx.accounts) \ except : GetOr(acctValues, n) \in ValidAddresses

\* The step hands a call to the builder: one more rpc() is outstanding.
BuilderInvoked == Len(inflight') = Len(inflight) + 1

Handed == inflight'[Len(inflight')]

\* A submit that ends in failure: an early return or an exception in the try
\* block (no call is left outstanding), or the rejection of rpc().
FailedSubmit == (runInstruction /\ inflight' = inflight) \/ RpcRejected

\* ---- C1
\* C1 (as stated): the stored argument and account maps are keyed by exactly
\* the selected instruction's names; in particular a switch of instruction
\* resets both maps, so afterwards they hold no key outside the new
\* instruction's names and no value entered before the switch.
C1_SwitchResetsForm ==
  [][(ixName # "" /\ ixName' # ixName) =>
       /\ \A k \in DOMAIN argValues' :
            k \in Names(currentIx'.args) /\ argValues'[k] = ""
       /\ \A k \in DOMAIN acctValues' :
            k \in Names(currentIx'.accounts) /\ acctValues'[k] = ""]_vars

\* ---- C2
\* C2: at most one submission is in flight at any time, and while one is in
\* flight the submit action is disabled (busy is set).
C2_AtMostOneInFlight ==
  /\ Len(inflight) <= 1
  /\ inflight # << >> => busy /\ ~ENABLED runInstruction

C2_Witness_SubmissionInFlight ==
  /\ Len(inflight) = 1
  /\ busy
  /\ log = SetLog(Msg("Building", "", ""))

\* ---- C3
\* C3 (as stated): when the result of a submission arrives after the operator
\* selected another instruction, it is discarded: the log is not written.
C3_StaleResultDiscarded ==
  [][(/\ Len(inflight') < Len(inflight)
      /\ \A i \in 1..Len(inflight) : inflight[i].ixName # ixName) =>
       log' = log]_vars

\* ---- C4
\* C4: when every declared argument has a stored raw value, the arguments
\* handed to the builder are as many as the instruction declares and the i-th
\* is the coercion, by the i-th declared type, of the raw value stored under
\* the i-th declared name.
C4_ArgsFollowDeclaredOrder ==
  [][(BuilderInvoked /\ Names(currentIx.args) \subseteq DOMAIN argValues) =>
       /\ Handed.ixName = ixName
       /\ Len(Handed.args) = Len(currentIx.args)
       /\ \A i \in 1..Len(currentIx.args) :
            \E strict \in BOOLEAN :
              Handed.args[i] = parseArg(argValues[currentIx.args[i].name],
                                        ResolveType(currentIx.args[i].type), strict)]_vars

C4_Witness_TwoArgsHanded ==
  /\ Len(inflight) = 1
  /\ inflight[1].ixName = "configure"
  /\ {"enabled", "amount"} \subseteq DOMAIN argValues
  /\ inflight[1].args = << BoolVal(TRUE), NumVal(1) >>

\* ---- C5
\* C5 (as stated): a submit that reaches assembly of an instruction declaring
\* the system-program account, with no value supplied for it and every other
\* field in order, does not fail: the builder is invoked with the well-known
\* system-program address under that name.
C5_SystemProgramAutoFilled ==
  [][(/\ runInstruction
      /\ ReachesAssembly
      /\ SystemProgramName \in Names(currentIx.accounts)
      /\ GetOr(acctValues, SystemProgramName) = ""
      /\ ArgsCoerce
      /\ AccountsSupplied({SystemProgramName})) =>
       /\ BuilderInvoked
       /\ Handed.accounts[SystemProgramName] = SystemProgramId]_vars

C7_MissingArgumentFails ==
  [][(/\ runInstruction
      /\ ReachesAssembly
      /\ ArgsCoerce
      /\ AccountsSupplied({})
      /\ \E i \in 1..Len(currentIx.args) : currentIx.args[i].name \notin DOMAIN argValues) =>
       /\ ~BuilderInvoked
       /\ \E i \in 1..Len(currentIx.args) :
            /\ currentIx.args[i].name \notin DOMAIN argValues
            /\ log' = << RunFailed("MissingArgument", currentIx.args[i].name) >>]_vars

\* ---- C8
\* C8 (as stated): a raw string that is no decimal literal, stored for an
\* argument of a declared numeric type, fails coercion and never yields a value
\* handed to the builder.  Stated for the inputs whose coercion does not depend
\* on the bn.js of the build: any narrow type, and the empty string.
C8_InvalidNumericLiteralFails ==
  [][(/\ runInstruction
      /\ ReachesAssembly
      /\ \E i \in 1..Len(currentIx.args) :
           LET a == currentIx.args[i]
               t == ResolveType(a.type)
           IN /\ a.name \in DOMAIN argValues
              /\ ~IsDecimal(argValues[a.name])
              /\ \/ IsNumType(t)
                 \/ isBNType(t) /\ argValues[a.name] = "") =>
       ~BuilderInvoked]_vars

====
